---- MODULE Spec2Model ----
(***************************************************************************)
(* A model of etymlib.py: the EtymologyData store (two networkx DiGraphs   *)
(* and two key -> entity dicts), the Lang / Root queries computed from the *)
(* graphs, and the two JSON shapes with read_json.                         *)
(*                                                                         *)
(* Python values are encoded as follows.                                   *)
(*   str        a sequence of one-character strings                        *)
(*   Optional   None is <<>>, a present value v is <<v>>                   *)
(*   list       a sequence                                                 *)
(*   dict       a sequence of <<key, value>> pairs in insertion order      *)
(*   DiGraph    [nodes, edges]: the nodes in insertion order and the       *)
(*              edges <<u, v>> in insertion order, which gives the         *)
(*              iteration order of G, G.predecessors and G.successors      *)
(* An exception leaves the store as the statements before the raise left   *)
(* it; the operators below thread a frame [db, exc] to model that.         *)
(***************************************************************************)
EXTENDS FiniteSets, Integers, Sequences, TLC

\* ------------------------------------------------------------------ bounds
MaxOps == 2
MaxIOOps == 4

\* ----------------------------------------------------------------- strings
SP == " "

None == <<>>

Some(v) == <<v>>

\* bool(x) of an Optional str, list or dict
Truthy(o) == o # None /\ o[1] # <<>>

RECURSIVE SplitFrom(_, _, _)
SplitFrom(s, i, cur) ==
    IF i > Len(s)
    THEN IF cur = <<>> THEN <<>> ELSE <<cur>>
    ELSE IF s[i] = SP
         THEN IF cur = <<>>
              THEN SplitFrom(s, i + 1, <<>>)
              ELSE <<cur>> \o SplitFrom(s, i + 1, <<>>)
         ELSE SplitFrom(s, i + 1, Append(cur, s[i]))

\* str.split(): the maximal runs of non-blank characters
Split(s) == SplitFrom(s, 1, <<>>)

RECURSIVE Join(_)
\* ' '.join(tokens)
Join(tokens) ==
    IF tokens = <<>> THEN <<>>
    ELSE IF Len(tokens) = 1 THEN tokens[1]
    ELSE tokens[1] \o <<SP>> \o Join(Tail(tokens))

RECURSIVE LStrip(_, _)
LStrip(s, c) == IF s # <<>> /\ s[1] = c THEN LStrip(Tail(s), c) ELSE s

RECURSIVE RStrip(_, _)
RStrip(s, c) ==
    IF s # <<>> /\ s[Len(s)] = c THEN RStrip(SubSeq(s, 1, Len(s) - 1), c) ELSE s

\* str.strip(c) for a one-character c
Strip(s, c) == RStrip(LStrip(s, c), c)

Range(s) == {s[i] : i \in 1..Len(s)}

\* ------------------------------------------------------------------ inputs
LangA == <<"a">>
LangB == <<"b">>
LangNames == {LangA, LangB}

RootAXG == <<"a", SP, "x", SP, "g">>
RootAXH == <<"a", SP, "x", SP, "h">>
RootBXG == <<"b", SP, "x", SP, "g">>
RootKeys == {RootAXG, RootAXH, RootBXG}

\* info dicts: {'pos': 'n'} and {'b x g': 'cf'}
InfoPos == Some(<< << <<"p", "o", "s">>, "n" >> >>)
InfoRef == Some(<< << RootBXG, "cf" >> >>)
Infos == {None, InfoPos, InfoRef}

\* the keys of an Optional dict, in order, as the Optional iterable a
\* parameter bound to the dict is when it is tested and iterated
DictKeys(info) ==
    IF info = None THEN None
    ELSE Some([i \in 1..Len(info[1]) |-> info[1][i][1]])

\* ------------------------------------------------------------------ DiGraph
EmptyGraph == [nodes |-> <<>>, edges |-> <<>>]

HasNode(g, n) == n \in Range(g.nodes)

\* DiGraph.add_node
GraphAddNode(g, n) ==
    IF HasNode(g, n) THEN g ELSE [g EXCEPT !.nodes = Append(@, n)]

\* add_edge of a graph that keeps parallel edges
GraphAddEdgeDup(g, u, v) ==
    LET g1 == GraphAddNode(g, u)
        g2 == GraphAddNode(g1, v)
    IN  [g2 EXCEPT !.edges = Append(@, <<u, v>>)]

\* DiGraph.add_edge: both nodes are added when absent, the edge is kept once
GraphAddEdge(g, u, v) ==
    LET g1 == GraphAddNode(g, u)
        g2 == GraphAddNode(g1, v)
    IN  IF <<u, v>> \in Range(g2.edges) THEN g2
        ELSE [g2 EXCEPT !.edges = Append(@, <<u, v>>)]

\* list(G.predecessors(n)), n a node of G
Predecessors(g, n) ==
    LET into(e) == e[2] = n
        es == SelectSeq(g.edges, into)
    IN  [i \in 1..Len(es) |-> es[i][1]]

\* list(G.successors(n)), n a node of G
Successors(g, n) ==
    LET from(e) == e[1] = n
        es == SelectSeq(g.edges, from)
    IN  [i \in 1..Len(es) |-> es[i][2]]

EdgeSet(g) == Range(g.edges)

NodeSet(g) == Range(g.nodes)

\* -------------------------------------------------------------------- store
NoExc == "none"

EmptyStore ==
    [lang_graph |-> EmptyGraph, root_graph |-> EmptyGraph,
     langs |-> <<>>, roots |-> <<>>,
     langs_graph |-> None, roots_graph |-> None]

Frame(db) == [db |-> db, exc |-> NoExc]

LangKeys(db) == {db.langs[i].name : i \in 1..Len(db.langs)}

RootKeysOf(db) == {db.roots[i].key : i \in 1..Len(db.roots)}

\* self.roots[key], key a key
RootOf(db, key) ==
    db.roots[CHOOSE i \in 1..Len(db.roots) : db.roots[i].key = key]

SetLangInfo(langs, name, info) ==
    [i \in 1..Len(langs) |->
        IF langs[i].name = name THEN [langs[i] EXCEPT !.info = info]
        ELSE langs[i]]

SetRootInfo(roots, key, info) ==
    [i \in 1..Len(roots) |->
        IF roots[i].key = key THEN [roots[i] EXCEPT !.info = info]
        ELSE roots[i]]

\* _create_lang that assigns info to a present language whatever info is
CreateLangAlways(f, name, info) ==
    IF f.exc # NoExc THEN f
    ELSE IF name \notin LangKeys(f.db)
    THEN [f EXCEPT !.db.lang_graph = GraphAddNode(@, name),
                   !.db.langs = Append(@, [name |-> name, info |-> info])]
    ELSE [f EXCEPT !.db.langs = SetLangInfo(@, name, info)]

\* _create_lang; a frame that carries an exception is left as it is
CreateLang(f, name, info) ==
    IF f.exc # NoExc THEN f
    ELSE IF name \notin LangKeys(f.db)
    THEN [f EXCEPT !.db.lang_graph = GraphAddNode(@, name),
                   !.db.langs = Append(@, [name |-> name, info |-> info])]
    ELSE IF Truthy(info)
    THEN [f EXCEPT !.db.langs = SetLangInfo(@, name, info)]
    ELSE f

\* Root.__init__: the key is unpacked into exactly three tokens
NewRoot(root, info) ==
    LET t == Split(root)
    IN  [key |-> root, lang |-> t[1], text |-> t[2], gloss |-> t[3],
         info |-> info]

\* _create_root: the node is added before Root(...) unpacks the key, so a
\* key that is not three tokens leaves the node and raises ValueError
CreateRoot(f, root, info) ==
    IF f.exc # NoExc THEN f
    ELSE IF root \notin RootKeysOf(f.db)
    THEN IF Len(Split(root)) # 3
         THEN [f EXCEPT !.db.root_graph = GraphAddNode(@, root),
                        !.exc = "ValueError"]
         ELSE [f EXCEPT !.db.root_graph = GraphAddNode(@, root),
                        !.db.roots = Append(@, NewRoot(root, info))]
    ELSE IF Truthy(info)
    THEN [f EXCEPT !.db.roots = SetRootInfo(@, root, info)]
    ELSE f

LangAddEdge(f, u, v) ==
    IF f.exc # NoExc THEN f
    ELSE [f EXCEPT !.db.lang_graph = GraphAddEdge(@, u, v)]

RootAddEdge(f, u, v) ==
    IF f.exc # NoExc THEN f
    ELSE [f EXCEPT !.db.root_graph = GraphAddEdge(@, u, v)]

\* add_lang
AddLang(f, name, source, info) ==
    IF ~Truthy(source)
    THEN CreateLang(f, name, info)
    ELSE LangAddEdge(CreateLang(CreateLang(f, source[1], None), name, info),
                     source[1], name)

RECURSIVE AddRootSources(_, _, _)
\* for source in sources: _create_root(source); add_edge(source, root)
AddRootSources(f, root, srcs) ==
    IF srcs = <<>> THEN f
    ELSE AddRootSources(
            RootAddEdge(CreateRoot(f, srcs[1], None), srcs[1], root),
            root, Tail(srcs))

\* add_root
AddRoot(f, root, sources, info) ==
    IF ~Truthy(sources)
    THEN CreateRoot(f, root, info)
    ELSE AddRootSources(CreateRoot(f, root, info), root, sources[1])

RECURSIVE CreateLangs(_, _, _)
\* for name in names: _create_lang(name, info)
CreateLangs(f, names, info) ==
    IF names = <<>> THEN f
    ELSE CreateLangs(CreateLang(f, names[1], info), Tail(names), info)

RECURSIVE AddLangsEdges(_, _, _)
\* for name in names: _create_lang(name); add_edge(source, name)
AddLangsEdges(f, names, source) ==
    IF names = <<>> THEN f
    ELSE AddLangsEdges(
            LangAddEdge(CreateLang(f, names[1], None), source, names[1]),
            Tail(names), source)

\* add_langs
AddLangs(f, names, source, info) ==
    IF ~Truthy(source)
    THEN CreateLangs(f, names, info)
    ELSE AddLangsEdges(CreateLang(f, source[1], None), names, source[1])

RECURSIVE CreateRoots(_, _, _)
\* for root in roots: _create_root(root, info)
CreateRoots(f, roots, info) ==
    IF roots = <<>> THEN f
    ELSE CreateRoots(CreateRoot(f, roots[1], info), Tail(roots), info)

RECURSIVE RootAddEdges(_, _, _)
\* for source in sources: add_edge(source, root)
RootAddEdges(f, srcs, root) ==
    IF srcs = <<>> THEN f
    ELSE RootAddEdges(RootAddEdge(f, srcs[1], root), Tail(srcs), root)

RECURSIVE AddRootsEach(_, _, _, _)
\* for root in roots: _create_root(root, info); the edges from every source
AddRootsEach(f, roots, srcs, info) ==
    IF roots = <<>> THEN f
    ELSE AddRootsEach(
            RootAddEdges(CreateRoot(f, roots[1], info), srcs, roots[1]),
            Tail(roots), srcs, info)

\* add_roots
AddRoots(f, roots, sources, info) ==
    IF ~Truthy(sources)
    THEN CreateRoots(f, roots, info)
    ELSE AddRootsEach(CreateRoots(f, sources[1], None), roots, sources[1], info)

Min(a, b) == IF a < b THEN a ELSE b

RECURSIVE AddLangsZip(_, _, _, _, _)
\* for lang, source in zip(langs, sources): add_lang(lang, source, info)
AddLangsZip(f, langs, srcs, info, i) ==
    IF i > Min(Len(langs), Len(srcs)) THEN f
    ELSE AddLangsZip(AddLang(f, langs[i], srcs[i], info), langs, srcs, info, i + 1)

\* zip(langs, None) raises TypeError before any language is added
AddLangsFrom(f, langs, sources, info) ==
    IF sources = None THEN [f EXCEPT !.exc = "TypeError"]
    ELSE AddLangsZip(f, langs, sources[1], info, 1)

RECURSIVE AddRootsZip(_, _, _, _, _)
\* for root, sources in zip(roots, sources): add_root(root, sources, info)
AddRootsZip(f, roots, srcs, info, i) ==
    IF i > Min(Len(roots), Len(srcs)) THEN f
    ELSE AddRootsZip(AddRoot(f, roots[i], Some(srcs[i]), info),
                     roots, srcs, info, i + 1)

RECURSIVE AddRootsPlain(_, _, _)
\* for root in roots: add_root(root, info), info bound to `sources`
AddRootsPlain(f, roots, info) ==
    IF roots = <<>> THEN f
    ELSE AddRootsPlain(AddRoot(f, roots[1], DictKeys(info), None),
                       Tail(roots), info)

\* add_roots_from
AddRootsFrom(f, roots, sources, info) ==
    IF Truthy(sources)
    THEN AddRootsZip(f, roots, sources[1], info, 1)
    ELSE AddRootsPlain(f, roots, info)

\* ------------------------------------------------------------------ queries
\* Lang.source(): the first predecessor when any predecessor is truthy
LangSource(db, name) ==
    LET preds == Predecessors(db.lang_graph, name)
    IN  IF \E i \in 1..Len(preds) : preds[i] # <<>>
        THEN Some(preds[1])
        ELSE None

\* Lang.children()
LangChildren(db, name) == Successors(db.lang_graph, name)

\* Lang.vocab(): the nodes of root_graph whose first token is the language
LangVocab(db, name) ==
    LET mine(r) == Split(r) # <<>> /\ Split(r)[1] = name
    IN  SelectSeq(db.root_graph.nodes, mine)

RECURSIVE NextMatch(_, _, _, _, _)
\* next(self.db.roots[root] for root in vocab if root.split()[idx] == want)
NextMatch(db, vocab, idx, want, i) ==
    IF i > Len(vocab) THEN [exc |-> "StopIteration", val |-> <<>>]
    ELSE IF Len(Split(vocab[i])) < idx
    THEN [exc |-> "IndexError", val |-> <<>>]
    ELSE IF Split(vocab[i])[idx] = want
    THEN IF vocab[i] \in RootKeysOf(db)
         THEN [exc |-> NoExc, val |-> vocab[i]]
         ELSE [exc |-> "KeyError", val |-> <<>>]
    ELSE NextMatch(db, vocab, idx, want, i + 1)

\* Lang.__getitem__(key): the key of the root returned, or the exception
LangGetItem(db, name, key) ==
    IF key = <<>> THEN [exc |-> "IndexError", val |-> <<>>]
    ELSE IF key[1] = "<"
    THEN NextMatch(db, LangVocab(db, name), 3, Strip(Strip(key, "<"), ">"), 1)
    ELSE NextMatch(db, LangVocab(db, name), 2, key, 1)

\* Root.__str__
RootStr(e) == Join(<<e.lang, e.text, e.gloss>>)

\* the successors of the root in root_graph
RootSuccessors(db, e) == Successors(db.root_graph, RootStr(e))

\* Root.sources(), str(self) a node of root_graph
RootSources(db, e) == Predecessors(db.root_graph, RootStr(e))

\* Root.children(): the predecessors as well
RootChildren(db, e) == Predecessors(db.root_graph, RootStr(e))

\* is_compound with the threshold one higher
IsCompoundOverTwo(db, e) == Len(RootSources(db, e)) > 2

\* Root.is_compound()
IsCompound(db, e) == Len(RootSources(db, e)) > 1

\* is_inherited comparing the text token of the source, split()[1]
IsInheritedSecondToken(db, e) ==
    IF IsCompound(db, e) THEN "False"
    ELSE IF RootSources(db, e) # <<>>
    THEN IF e.lang \notin LangKeys(db) THEN "KeyError"
         ELSE IF LangSource(db, e.lang) = Some(Split(RootSources(db, e)[1])[2])
              THEN "True" ELSE "False"
    ELSE "None"

\* Root.is_inherited(): "True", "False", "None" (no return), or the
\* exception self.language() raises for a language that is not in langs
IsInherited(db, e) ==
    IF IsCompound(db, e) THEN "False"
    ELSE IF RootSources(db, e) # <<>>
    THEN IF e.lang \notin LangKeys(db) THEN "KeyError"
         ELSE IF LangSource(db, e.lang) = Some(Split(RootSources(db, e)[1])[1])
              THEN "True" ELSE "False"
    ELSE "None"

\* --------------------------------------------------------------------- JSON
RECURSIVE Flatten(_)
Flatten(ss) == IF ss = <<>> THEN <<>> ELSE ss[1] \o Flatten(Tail(ss))

\* G.edges: for every node in order, its successors in order
EdgesByNode(g) ==
    Flatten([i \in 1..Len(g.nodes) |->
        LET succ == Successors(g, g.nodes[i])
        IN  [j \in 1..Len(succ) |-> <<g.nodes[i], succ[j]>>]])

\* node_link_data(G, edges='edges')
NlData(g) ==
    [directed |-> TRUE, multigraph |-> FALSE,
     nodes |-> g.nodes, edges |-> EdgesByNode(g)]

RECURSIVE NlAddEdges(_, _)
NlAddEdges(g, es) ==
    IF es = <<>> THEN g
    ELSE NlAddEdges(GraphAddEdge(g, es[1][1], es[1][2]), Tail(es))

RECURSIVE NlAddNodes(_, _)
NlAddNodes(g, ns) ==
    IF ns = <<>> THEN g
    ELSE NlAddNodes(GraphAddNode(g, ns[1]), Tail(ns))

\* node_link_graph(data, edges='edges')
NlGraph(data) == NlAddEdges(NlAddNodes(EmptyGraph, data.nodes), data.edges)

\* Lang._graph_json
LangGraphJson(l) == [name |-> l.name, info |-> l.info]

\* Lang._dict_json
LangDictJson(db, l) ==
    [name |-> l.name, source |-> LangSource(db, l.name), info |-> l.info]

\* Root._graph_json
RootGraphJson(e) == [root |-> RootStr(e), info |-> e.info]

\* Root._dict_json
RootDictJson(db, e) ==
    [root |-> RootStr(e), sources |-> RootSources(db, e), info |-> e.info]

\* EtymologyData._dict_json
DictJson(db) ==
    [lang_graph |-> None, root_graph |-> None,
     langs |-> [i \in 1..Len(db.langs) |-> LangDictJson(db, db.langs[i])],
     roots |-> [i \in 1..Len(db.roots) |-> RootDictJson(db, db.roots[i])]]

\* EtymologyData._graph_json
GraphJson(db) ==
    [lang_graph |-> Some(NlData(db.lang_graph)),
     root_graph |-> Some(NlData(db.root_graph)),
     langs |-> [i \in 1..Len(db.langs) |-> LangGraphJson(db.langs[i])],
     roots |-> [i \in 1..Len(db.roots) |-> RootGraphJson(db.roots[i])]]

RECURSIVE ReadLangsGraph(_, _)
\* for lang in data['langs']: _create_lang(lang['name'], lang['info'])
ReadLangsGraph(f, ls) ==
    IF ls = <<>> THEN f
    ELSE ReadLangsGraph(CreateLang(f, ls[1].name, ls[1].info), Tail(ls))

RECURSIVE ReadRootsGraph(_, _)
\* for root in data['roots']: _create_root(root['root'], root['info'])
ReadRootsGraph(f, rs) ==
    IF rs = <<>> THEN f
    ELSE ReadRootsGraph(CreateRoot(f, rs[1].root, rs[1].info), Tail(rs))

RECURSIVE ReadLangsDict(_, _)
\* for lang in data['langs']: add_lang(name, source, info)
ReadLangsDict(f, ls) ==
    IF ls = <<>> THEN f
    ELSE ReadLangsDict(AddLang(f, ls[1].name, ls[1].source, ls[1].info),
                       Tail(ls))

RECURSIVE ReadRootsDict(_, _)
\* for root in data['roots']: add_root(root, sources, info)
ReadRootsDict(f, rs) ==
    IF rs = <<>> THEN f
    ELSE ReadRootsDict(AddRoot(f, rs[1].root, Some(rs[1].sources), rs[1].info),
                       Tail(rs))

\* read_json: a node-link dict is never empty, so a graph field is truthy
\* exactly when it is not null; the loaded graphs are bound to the
\* attributes langs_graph and roots_graph
ReadJson(f, data) ==
    IF data.lang_graph # None \/ data.root_graph # None
    THEN IF data.lang_graph = None \/ data.root_graph = None
         THEN [f EXCEPT !.exc = "AttributeError"]
         ELSE ReadRootsGraph(
                ReadLangsGraph(
                    [f EXCEPT !.db.langs_graph = Some(NlGraph(data.lang_graph[1])),
                              !.db.roots_graph = Some(NlGraph(data.root_graph[1]))],
                    data.langs),
                data.roots)
    ELSE ReadRootsDict(ReadLangsDict(f, data.langs), data.roots)

\* EtymologyData(path): a fresh store that reads the file
Construct(data) == ReadJson(Frame(EmptyStore), data)

\* ------------------------------------------------------------ state machine
\* db: the store; file: the document last written, None before any write;
\* last: the last call, its arguments and the exception it raised;
\* prev: the store before the last call; nops: the number of calls made
VARIABLES db, file, last, prev, nops

vars == <<db, file, last, prev, nops>>

\* Optional sources drawn for add_lang
LangSources == {None} \cup {Some(n) : n \in LangNames}

\* the roots drawn as sources
SourceKeys == {RootAXG, RootBXG}

\* Optional source lists drawn for add_root: omitted, one source, and two
\* sources, equal or different
SourceLists ==
    {None} \cup {Some(<<a>>) : a \in SourceKeys}
           \cup {Some(<<a, b>>) : a \in SourceKeys, b \in SourceKeys}

\* name lists drawn for add_langs
NameLists == {<<>>, <<LangB>>, <<LangA, LangB>>}

\* (langs, sources) drawn for add_langs_from: sources omitted, matching,
\* and shorter than langs
LangZips ==
    {<< <<LangA, LangB>>, None >>,
     << <<LangA, LangB>>, Some(<< None, Some(LangA) >>) >>,
     << <<LangB, LangA>>, Some(<< Some(LangA) >>) >>}

\* the root list drawn for add_roots and add_roots_from
RootList == <<RootAXG, RootAXH>>

\* shared source lists drawn for add_roots
SharedSources == {None, Some(<<RootBXG>>), Some(<<RootBXG, RootAXG>>)}

\* source-list lists drawn for add_roots_from
SourceListLists == {None, Some(<<>>), Some(<< <<RootBXG>>, <<>> >>)}

Init ==
    /\ db = EmptyStore
    /\ file = None
    /\ last = [op |-> "init", args |-> <<>>, exc |-> NoExc]
    /\ prev = EmptyStore
    /\ nops = 0

\* the record of a call that left the frame f
Call(op, args, f) == [op |-> op, args |-> args, exc |-> f.exc]

DoAddLang ==
    /\ nops < MaxOps
    /\ \E name \in LangNames, source \in LangSources, info \in {None, InfoPos} :
        LET f == AddLang(Frame(db), name, source, info)
        IN  /\ db' = f.db
            /\ last' = Call("add_lang", <<name, source, info>>, f)
    /\ prev' = db
    /\ nops' = nops + 1
    /\ UNCHANGED file

DoAddRoot ==
    /\ nops < MaxOps
    /\ \E root \in RootKeys, sources \in SourceLists, info \in {None, InfoPos} :
        LET f == AddRoot(Frame(db), root, sources, info)
        IN  /\ db' = f.db
            /\ last' = Call("add_root", <<root, sources, info>>, f)
    /\ prev' = db
    /\ nops' = nops + 1
    /\ UNCHANGED file

DoAddLangs ==
    /\ nops < MaxOps
    /\ \E names \in NameLists, source \in {None, Some(LangA)},
          info \in {None, InfoPos} :
        LET f == AddLangs(Frame(db), names, source, info)
        IN  /\ db' = f.db
            /\ last' = Call("add_langs", <<names, source, info>>, f)
    /\ prev' = db
    /\ nops' = nops + 1
    /\ UNCHANGED file

DoAddRoots ==
    /\ nops < MaxOps
    /\ \E sources \in SharedSources, info \in {None, InfoPos} :
        LET f == AddRoots(Frame(db), RootList, sources, info)
        IN  /\ db' = f.db
            /\ last' = Call("add_roots", <<RootList, sources, info>>, f)
    /\ prev' = db
    /\ nops' = nops + 1
    /\ UNCHANGED file

DoAddLangsFrom ==
    /\ nops < MaxOps
    /\ \E z \in LangZips, info \in {InfoPos} :
        LET f == AddLangsFrom(Frame(db), z[1], z[2], info)
        IN  /\ db' = f.db
            /\ last' = Call("add_langs_from", <<z[1], z[2], info>>, f)
    /\ prev' = db
    /\ nops' = nops + 1
    /\ UNCHANGED file

DoAddRootsFrom ==
    /\ nops < MaxOps
    /\ \E sources \in SourceListLists, info \in Infos :
        LET f == AddRootsFrom(Frame(db), RootList, sources, info)
        IN  /\ db' = f.db
            /\ last' = Call("add_roots_from", <<RootList, sources, info>>, f)
    /\ prev' = db
    /\ nops' = nops + 1
    /\ UNCHANGED file

Next ==
    \/ DoAddLang
    \/ DoAddRoot
    \/ DoAddLangs
    \/ DoAddRoots
    \/ DoAddLangsFrom
    \/ DoAddRootsFrom

Spec == Init /\ [][Next]_vars

\* A second specification for the documents: the store is built by add_lang
\* and add_root from narrower inputs, written in either form, and read back.
IOAddLang ==
    /\ nops < MaxIOOps
    /\ \E name \in LangNames, source \in LangSources :
        LET f == AddLang(Frame(db), name, source, InfoPos)
        IN  /\ db' = f.db
            /\ last' = Call("add_lang", <<name, source, InfoPos>>, f)
    /\ prev' = db
    /\ nops' = nops + 1
    /\ UNCHANGED file

IOAddRoot ==
    /\ nops < MaxIOOps
    /\ \E root \in RootKeys, sources \in {None, Some(<<RootAXG>>)} :
        LET f == AddRoot(Frame(db), root, sources, None)
        IN  /\ db' = f.db
            /\ last' = Call("add_root", <<root, sources, None>>, f)
    /\ prev' = db
    /\ nops' = nops + 1
    /\ UNCHANGED file

\* write_graph_json: json.dump of str, None, list and str-keyed dict values,
\* which json.load gives back unchanged
DoWriteGraphJson ==
    /\ nops < MaxIOOps
    /\ file' = Some(GraphJson(db))
    /\ last' = [op |-> "write_graph_json", args |-> <<>>, exc |-> NoExc]
    /\ prev' = db
    /\ nops' = nops + 1
    /\ UNCHANGED db

\* write_dict_json
DoWriteDictJson ==
    /\ nops < MaxIOOps
    /\ file' = Some(DictJson(db))
    /\ last' = [op |-> "write_dict_json", args |-> <<>>, exc |-> NoExc]
    /\ prev' = db
    /\ nops' = nops + 1
    /\ UNCHANGED db

\* db = EtymologyData(path): db is rebound unless the constructor raises
DoConstruct ==
    /\ nops < MaxIOOps
    /\ file # None
    /\ LET f == Construct(file[1])
       IN  /\ db' = IF f.exc = NoExc THEN f.db ELSE db
           /\ last' = Call("construct", <<>>, f)
    /\ prev' = db
    /\ nops' = nops + 1
    /\ UNCHANGED file

\* db.read_json(path) on the store as it is
DoReadJson ==
    /\ nops < MaxIOOps
    /\ file # None
    /\ LET f == ReadJson(Frame(db), file[1])
       IN  /\ db' = f.db
           /\ last' = Call("read_json", <<>>, f)
    /\ prev' = db
    /\ nops' = nops + 1
    /\ UNCHANGED file

NextIO ==
    \/ IOAddLang
    \/ IOAddRoot
    \/ DoWriteGraphJson
    \/ DoWriteDictJson
    \/ DoConstruct
    \/ DoReadJson

SpecIO == Init /\ [][NextIO]_vars

\* ------------------------------------------------------------------ claims
\* the info of every language, as a set of <<name, info>> pairs
LangInfos(d) == {<<d.langs[i].name, d.langs[i].info>> : i \in 1..Len(d.langs)}

\* the info of every root, as a set of <<key, info>> pairs
RootInfos(d) == {<<d.roots[i].key, d.roots[i].info>> : i \in 1..Len(d.roots)}

\* the store a fresh EtymologyData holds after reading the document
Reloaded(doc) == Construct(doc).db

\* C1: writing the store in graph form and loading the document into a
\* fresh store gives back the same info, the same Lang.source() and
\* Root.sources() for every key, and the same edges in both graphs.
C1_GraphRoundTrip ==
    LET d == Reloaded(GraphJson(db))
    IN  /\ LangInfos(d) = LangInfos(db)
        /\ RootInfos(d) = RootInfos(db)
        /\ \A n \in LangKeys(db) : LangSource(d, n) = LangSource(db, n)
        /\ \A i \in 1..Len(db.roots) :
              RootSources(d, db.roots[i]) = RootSources(db, db.roots[i])
        /\ EdgeSet(d.lang_graph) = EdgeSet(db.lang_graph)
        /\ EdgeSet(d.root_graph) = EdgeSet(db.root_graph)

DictRoundTripKeepsEdges(s) ==
    LET d == Reloaded(DictJson(s))
    IN  /\ EdgeSet(d.lang_graph) = EdgeSet(s.lang_graph)
        /\ EdgeSet(d.root_graph) = EdgeSet(s.root_graph)

\* C2 as stated: writing any store in dict form and loading the document
\* into a fresh store gives back the edge sets of both graphs.
C2_DictRoundTripAnyStore == DictRoundTripKeepsEdges(db)

SingleParent(s) ==
    \A n \in NodeSet(s.lang_graph) : Len(Predecessors(s.lang_graph, n)) <= 1

\* C2 amended: when every language has at most one incoming descent edge,
\* writing the store in dict form and loading the document into a fresh
\* store gives back the edge sets of both graphs.
C2_DictRoundTripSingleParent ==
    SingleParent(db) => DictRoundTripKeepsEdges(db)

\* a dict-form document of a store with edges in both graphs was written
\* and a fresh store was constructed from it
C2_Witness ==
    /\ last.op = "construct"
    /\ file = Some(DictJson(db))
    /\ SingleParent(db)
    /\ EdgeSet(db.lang_graph) # {}
    /\ EdgeSet(db.root_graph) # {}

Count(seq, x) == Cardinality({i \in 1..Len(seq) : seq[i] = x})

IsAddRootSingle == last.op = "add_root" /\ last.args[2] # None /\ Len(last.args[2][1]) = 1

\* C3: after add_root(r, [s]), calling add_root(r, [s]) again leaves the
\* nodes and the edges of root_graph as they are, and there is exactly one
\* edge s -> r.
C3_ReinsertIdempotent ==
    IsAddRootSingle =>
        LET r == last.args[1]
            s == last.args[2][1][1]
        IN  /\ Count(db.root_graph.edges, <<s, r>>) = 1
            /\ \A info \in Infos :
                 LET again == AddRoot(Frame(db), r, last.args[2], info).db
                 IN  /\ again.root_graph = db.root_graph
                     /\ Count(again.root_graph.edges, <<s, r>>) = 1

\* add_root(r, [s]) was called on a store that already held the edge s -> r
C3_Witness ==
    /\ IsAddRootSingle
    /\ <<last.args[2][1][1], last.args[1]>> \in EdgeSet(prev.root_graph)
    /\ last.args[2][1][1] # last.args[1]
    /\ db.root_graph = prev.root_graph

IsAddRootPair == last.op = "add_root" /\ last.args[2] # None /\ Len(last.args[2][1]) = 2

\* C4 as stated: after add_root(r, [a, b]), for any root keys a and b,
\* r.is_compound() is true and r.is_inherited() is false.
C4_TwoSourcesCompound ==
    IsAddRootPair =>
        /\ IsCompound(db, RootOf(db, last.args[1]))
        /\ IsInherited(db, RootOf(db, last.args[1])) = "False"

\* C4 amended: after add_root(r, [a, b]) with a # b, r.is_compound() is
\* true and r.is_inherited() is false.
C4_TwoDistinctSourcesCompound ==
    (IsAddRootPair /\ last.args[2][1][1] # last.args[2][1][2]) =>
        /\ IsCompound(db, RootOf(db, last.args[1]))
        /\ IsInherited(db, RootOf(db, last.args[1])) = "False"

\* add_root(r, [a, b]) was called with r, a and b three different keys
C4_Witness ==
    /\ IsAddRootPair
    /\ Cardinality({last.args[1], last.args[2][1][1], last.args[2][1][2]}) = 3
    /\ IsCompound(db, RootOf(db, last.args[1]))

\* lookup keys: a text, and two glosses in angle brackets
LookupKeys == {<<"x">>, <<"<", "g", ">">>, <<"<", "h", ">">>}

\* the roots of the language's vocabulary the lookup key matches
Matches(d, name, key) ==
    {d.roots[i].key : i \in {j \in 1..Len(d.roots) :
        /\ d.roots[j].lang = name
        /\ d.roots[j].key \in NodeSet(d.root_graph)
        /\ IF key[1] = "<"
           THEN <<"<">> \o d.roots[j].gloss \o <<">">> = key
           ELSE d.roots[j].text = key}}

\* C5: Lang[key] with a text or a bracketed gloss that matches two or more
\* roots of the language raises; it never returns one of them.
C5_AmbiguousLookupRaises ==
    \A name \in LangKeys(db), key \in LookupKeys :
        Cardinality(Matches(db, name, key)) >= 2 =>
            LangGetItem(db, name, key).exc # NoExc

RECURSIVE AddLangEach(_, _, _, _)
\* add_lang(n, source, info) for each n of names in order
AddLangEach(f, names, source, info) ==
    IF names = <<>> THEN f
    ELSE AddLangEach(AddLang(f, names[1], source, info), Tail(names), source, info)

\* C6: add_langs(names, source, info) leaves the store add_lang(n, source,
\* info) for each n of names leaves: the same nodes and edges of
\* lang_graph, the same languages, each with the same info.
C6_AddLangsElementwise ==
    last.op = "add_langs" =>
        LET d == AddLangEach(Frame(prev), last.args[1], last.args[2], last.args[3]).db
        IN  /\ NodeSet(db.lang_graph) = NodeSet(d.lang_graph)
            /\ EdgeSet(db.lang_graph) = EdgeSet(d.lang_graph)
            /\ LangInfos(db) = LangInfos(d)

\* the sources of a root as the edges of root_graph give them
EdgeSources(d, key) == {e[1] : e \in {x \in EdgeSet(d.root_graph) : x[2] = key}}

OneSourceRoots(d) ==
    {i \in 1..Len(d.roots) : Cardinality(EdgeSources(d, d.roots[i].key)) = 1}

\* the verdict C7 gives for a root with the single source s
InheritedVerdict(d, e) ==
    LET s == CHOOSE u \in EdgeSources(d, e.key) : TRUE
    IN  IF e.lang \in LangKeys(d) /\ LangSource(d, e.lang) = Some(Split(s)[1])
        THEN "True" ELSE "False"

\* C7 as stated: for every root with exactly one source s, is_inherited()
\* returns true if the language token of s is the source of the root's
\* language, and false otherwise.
C7_InheritedIffParentLanguage ==
    \A i \in OneSourceRoots(db) :
        IsInherited(db, db.roots[i]) = InheritedVerdict(db, db.roots[i])

\* C7 amended: for every root with exactly one source s whose own language
\* is in the store, is_inherited() returns true if the language token of s
\* is the source of the root's language, and false otherwise; such a root is
\* not compound.
C7_InheritedIffParentLanguageKnown ==
    \A i \in OneSourceRoots(db) :
        db.roots[i].lang \in LangKeys(db) =>
            /\ IsInherited(db, db.roots[i]) = InheritedVerdict(db, db.roots[i])
            /\ ~IsCompound(db, db.roots[i])

\* language b was added with source a, and root `b x g` with the single
\* source `a x g`: the root is inherited and not compound
C7_Witness ==
    /\ Predecessors(db.lang_graph, LangB) = <<LangA>>
    /\ RootBXG \in RootKeysOf(db)
    /\ EdgeSources(db, RootBXG) = {RootAXG}
    /\ IsInherited(db, RootOf(db, RootBXG)) = "True"
    /\ ~IsCompound(db, RootOf(db, RootBXG))

\* every pair of s is a pair of d, except that of `key` when changed is true
InfosKept(s, d, key, changed) ==
    \A p \in s : p \in d \/ (changed /\ p[1] = key)

\* C8: add_lang and add_root change no info but that of the name or key
\* they insert, and that one only when info is supplied.
C8_InfoFrame ==
    /\ last.op = "add_lang" =>
          /\ InfosKept(LangInfos(prev), LangInfos(db), last.args[1],
                       last.args[3] # None)
          /\ RootInfos(db) = RootInfos(prev)
    /\ last.op = "add_root" =>
          /\ InfosKept(RootInfos(prev), RootInfos(db), last.args[1],
                       last.args[3] # None)
          /\ LangInfos(db) = LangInfos(prev)

\* add_lang(b, a) without info was called on a store in which a and b both
\* carried an info
C8_Witness ==
    /\ last.op = "add_lang"
    /\ last.args = <<LangB, Some(LangA), None>>
    /\ {<<LangA, InfoPos>>, <<LangB, InfoPos>>} \subseteq LangInfos(prev)
    /\ LangInfos(db) = LangInfos(prev)

\* C9: add_roots_from(keys, no source lists, info) creates every key as a
\* root carrying info, adds no edge, and adds no node but the keys.
C9_AddRootsFromPlain ==
    (last.op = "add_roots_from" /\ ~Truthy(last.args[2])) =>
        /\ last.exc = NoExc
        /\ \A k \in Range(last.args[1]) :
              /\ k \in RootKeysOf(db)
              /\ last.args[3] # None => RootOf(db, k).info = last.args[3]
        /\ EdgeSet(db.root_graph) = EdgeSet(prev.root_graph)
        /\ NodeSet(db.root_graph) = NodeSet(prev.root_graph) \cup Range(last.args[1])

Endpoints(g) == {e[1] : e \in EdgeSet(g)} \cup {e[2] : e \in EdgeSet(g)}

\* C10: the keys of langs are the nodes of lang_graph, the keys of roots
\* are the nodes of root_graph, and every edge joins two keys.
C10_StoreConsistent ==
    /\ LangKeys(db) = NodeSet(db.lang_graph)
    /\ RootKeysOf(db) = NodeSet(db.root_graph)
    /\ Endpoints(db.lang_graph) \subseteq LangKeys(db)
    /\ Endpoints(db.root_graph) \subseteq RootKeysOf(db)
====
